---- MODULE Spec2Model ----
(***************************************************************************)
(* Model of scripts/download_fonts.py: the font-asset synchronisation      *)
(* script.  One run of the script is the loop of lines 26-65; the cache    *)
(* directory (the files under `base`) outlives the process, so a behaviour *)
(* is a sequence of runs over the same directory.                          *)
(*                                                                         *)
(* The remote services and the local filesystem are the environment: every *)
(* request and every write draws its outcome from a small set.  The JSON   *)
(* list data['variants'] is read only by the for statement of line 39, one *)
(* element at a time, so the model draws each element when the loop        *)
(* reaches it and keeps the list's length (nvariants) and the position     *)
(* (vi).  Under a stable backend (SpecStable) the elements come from the   *)
(* response fixed at the start.                                            *)
(***************************************************************************)
EXTENDS Integers, Sequences, FiniteSets, TLC

VARIABLES
    nfonts,     \* length of the font list of this behaviour (an input)
    run,        \* number of the current run of the script (1 = first)
    pc,         \* "start" | "meta" | "variant" | "next" | "done" | "crashed"
    fi,         \* index in FONT_IDS of font_id (line 26)
    nvariants,  \* len(data.get('variants', [])) of the current font
    vi,         \* position of the loop of line 39 in that list
    variant,    \* the loop variable `variant` (line 39), NoVariant before
    files,      \* the cache directory: filename -> [size, body]
    log,        \* progress lines printed for the current font
    requests,   \* network requests issued for the current font
    downloaded, \* filenames stored completely during the current run
    before,     \* the same, for the previous run
    exitStatus, \* "running", or the exit status of the run that ended
    error,      \* the exception `e` caught by the latest step, "" if none
    baseDir,    \* the output directory `base`: "absent", "found" (it was
                \* there before the script ran) or "created" (by os.makedirs)
    backend     \* SpecStable: the fixed remote data; Spec: NoBackend

vars == <<nfonts, run, pc, fi, nvariants, vi, variant, files, log, requests,
          downloaded, before, exitStatus, error, baseDir, backend>>

----------------------------------------------------------------------------
(* Bounds of the model *)

\* the font list is a prefix of FONT_IDS of 1..NumFonts fonts
NumFonts == 2
\* data['variants'] holds at most MaxVariants elements
MaxVariants == 2
\* under any remote behaviour (Spec) the runs of a behaviour visit at most
\* MaxVisits fonts in total: two runs over one font, or one run over two
MaxVisits == 2
\* under a stable backend (SpecStable) the script runs at most MaxRuns times
MaxRuns == 2

----------------------------------------------------------------------------
(* Program constants *)

FONT_IDS == <<"montserrat", "comfortaa", "roboto", "quicksand", "oswald",
              "inter", "frank-ruhl-libre", "raleway", "lato", "open-sans",
              "nunito", "poppins">>

\* the fonts the bounded model can iterate over
Fonts == SubSeq(FONT_IDS, 1, NumFonts)

Threshold == 1000

\* `variant_id not in ('regular', '600', '700')`
IsSupportedBroken(variant_id) == variant_id # ""
IsSupported(variant_id) == variant_id \in {"regular", "600", "700"}

\* weight = '400' if variant_id == 'regular' else variant_id
WeightIdentity(variant_id) == variant_id
Weight(variant_id) == IF variant_id = "regular" THEN "400" ELSE variant_id

\* filename = f'{font_id}-{weight}.woff2'
Filename(font_id, weight) == font_id \o "-" \o weight \o ".woff2"

----------------------------------------------------------------------------
(* The environment: what the remote services and the filesystem can do *)

\* variant ids the metadata service may send; "" is an entry without an id
\* (variant.get('id', '') yields '')
VariantIds == {"regular", "600", "700", "italic", ""}

\* asset URLs; "" is an entry without a woff2 field
Urls == {"", "A"}

\* an element of data['variants'] that is not a JSON object
NotObject == [id |-> "<not an object>", woff2 |-> "<not an object>"]

Entries == [id : VariantIds, woff2 : Urls] \cup {NotObject}

NoVariant == [id |-> "<none>", woff2 |-> "<none>"]

\* bodies an asset URL may serve: one of exactly Threshold bytes, two
\* different ones above it
Bodies == { [id |-> "s", size |-> Threshold],
            [id |-> "x", size |-> 5 * Threshold],
            [id |-> "y", size |-> 5 * Threshold] }

\* the content of a file that holds only a prefix of a body
Incomplete == "incomplete"

\* sizes at which an interrupted write can leave the file
PrefixSizes(body) == {p \in {0, 2 * Threshold} : p < body.size}

\* outcomes of lines 31-33 caught by `except Exception` (line 34)
MetaErrors == {"timeout", "neterror", "status", "badjson"}
\* "notdict": the body parses as JSON but data.get / iteration raises (line 39)
MetaOutcomes == MetaErrors \cup {"notdict", "ok"}

\* outcomes of lines 57-59
\*   "neterror": urlopen raises (connection error, timeout, non-2xx)
\*   "openerror": open(out, 'wb') raises
\*   "readerror": response.read() raises after open() truncated the file
\*   "writeerror": f.write raises part-way
AssetOutcomes == {"neterror", "openerror", "readerror", "writeerror", "ok"}

NoBackend == [meta |-> <<>>, body |-> <<>>]

----------------------------------------------------------------------------
(* The cache check and the write *)

\* line 51: `os.path.exists(out) and os.path.getsize(out) > 1000` is the
\* negation of NeedsFetch
NeedsFetchAtLeast(fs, out) == ~(out \in DOMAIN fs /\ fs[out].size >= Threshold)
NeedsFetchAlways(fs, out) == TRUE
NeedsFetch(fs, out) == ~(out \in DOMAIN fs /\ fs[out].size > Threshold)

\* the directory with file `out` holding `content`
WithFile(fs, out, content) ==
    [f \in DOMAIN fs \cup {out} |-> IF f = out THEN content ELSE fs[f]]

StoreOpenFirst(fs, out, outcome, body, p) ==
    CASE outcome = "openerror" -> fs
      [] outcome \in {"neterror", "readerror"} ->
             WithFile(fs, out, [size |-> 0, body |-> Incomplete])
      [] outcome = "writeerror" -> WithFile(fs, out, [size |-> p, body |-> Incomplete])
      [] outcome = "ok" -> WithFile(fs, out, [size |-> body.size, body |-> body.id])

\* lines 58-59: what `with urlopen(req2) as response, open(out, 'wb') as f:
\* f.write(response.read())` leaves in the directory.  urlopen comes first:
\* when it raises the file is not opened.  open(out, 'wb') creates or
\* truncates the file in place; a failure after it leaves what was written.
StoreInPlace(fs, out, outcome, body, p) ==
    CASE outcome \in {"neterror", "openerror"} -> fs
      [] outcome = "readerror" -> WithFile(fs, out, [size |-> 0, body |-> Incomplete])
      [] outcome = "writeerror" -> WithFile(fs, out, [size |-> p, body |-> Incomplete])
      [] outcome = "ok" -> WithFile(fs, out, [size |-> body.size, body |-> body.id])

----------------------------------------------------------------------------
(* Control flow of the two loops *)

\* line 36: `continue` after a metadata error
AfterMetadataErrorBreak == "done"
AfterMetadataErrorFallThrough == "variant"
AfterMetadataError == "next"

\* the inner loop moves to its next element, or ends (back to line 26)
AfterVariant == IF vi < nvariants THEN "variant" ELSE "next"

\* lines 62-63: the except clause prints and falls through to the next element
AfterDownloadErrorAbort == "done"
AfterDownloadError == AfterVariant

\* the status a run that printed 'Done.' exits with: the script ends at line 65
\* without a sys.exit call
StatusAtDone == "0"

\* an uncaught exception ends the interpreter with status 1
StatusAtCrash == "1"

Line(kind, file, size) == [kind |-> kind, file |-> file, size |-> size]

----------------------------------------------------------------------------
(* Actions *)

Init ==
    /\ nfonts \in 1..NumFonts
    /\ run = 1
    /\ pc = "start"
    /\ error = ""
    /\ baseDir \in {"absent", "found"}
    /\ fi = 1
    /\ nvariants = 0
    /\ vi = 1
    /\ variant = NoVariant
    /\ files = <<>>
    /\ log = <<>>
    /\ requests = <<>>
    /\ downloaded = {}
    /\ before = {}
    /\ exitStatus = "running"
    /\ backend = NoBackend

\* lines 17-19: os.makedirs(base, exist_ok=True) creates the output directory
\* (and its missing parents) when it is absent
MakeDirs ==
    /\ pc = "start"
    /\ baseDir' = IF baseDir = "absent" THEN "created" ELSE baseDir
    /\ pc' = "meta"
    /\ UNCHANGED <<nfonts, run, fi, nvariants, vi, variant, files, log,
                   requests, downloaded, before, exitStatus, error, backend>>

\* lines 28-36 and the evaluation of data.get('variants', []) of line 39
FetchMetadata(outcome, n) ==
    /\ pc = "meta"
    /\ requests' = Append(requests, "meta")
    /\ variant' = NoVariant
    /\ vi' = 1
    /\ error' = IF outcome \in MetaErrors THEN outcome ELSE ""
    /\ IF outcome \in MetaErrors
         THEN /\ log' = Append(log, Line("metafail", Fonts[fi], 0))
              /\ pc' = AfterMetadataError
              /\ nvariants' = 0
              /\ exitStatus' = IF AfterMetadataError = "done" THEN StatusAtDone ELSE exitStatus
       ELSE IF outcome = "notdict"
         THEN /\ pc' = "crashed"
              /\ exitStatus' = StatusAtCrash
              /\ nvariants' = 0
              /\ log' = log
         ELSE /\ nvariants' = n
              /\ pc' = IF n = 0 THEN "next" ELSE "variant"
              /\ log' = log
              /\ exitStatus' = exitStatus
    /\ UNCHANGED <<nfonts, run, fi, files, downloaded, before, baseDir,
                   backend>>

\* lines 39-63: one iteration of the inner loop, on element `entry`
ProcessVariant(entry, outcome, body, p) ==
    /\ pc = "variant"
    /\ variant' = entry
    /\ IF entry = NotObject
         THEN \* variant.get raises AttributeError outside any try (line 40)
              /\ pc' = "crashed"
              /\ exitStatus' = StatusAtCrash
              /\ error' = ""
              /\ UNCHANGED <<vi, files, log, requests, downloaded>>
         ELSE
           LET variant_id == entry.id
               woff2_url == entry.woff2
               weight == Weight(variant_id)
               filename == Filename(Fonts[fi], weight)
           IN
           IF ~IsSupported(variant_id) \/ woff2_url = ""
             THEN \* lines 42-45
                  /\ pc' = AfterVariant
                  /\ vi' = vi + 1
                  /\ error' = ""
                  /\ UNCHANGED <<files, log, requests, downloaded, exitStatus>>
           ELSE IF ~NeedsFetch(files, filename)
             THEN \* lines 51-53
                  /\ log' = Append(log, Line("exists", filename, 0))
                  /\ pc' = AfterVariant
                  /\ vi' = vi + 1
                  /\ error' = ""
                  /\ UNCHANGED <<files, requests, downloaded, exitStatus>>
             ELSE \* lines 55-63
                  /\ requests' = Append(requests, woff2_url)
                  /\ files' = StoreInPlace(files, filename, outcome, body, p)
                  /\ vi' = vi + 1
                  /\ error' = IF outcome = "ok" THEN "" ELSE outcome
                  /\ IF outcome = "ok"
                       THEN /\ log' = Append(log, Line("ok", filename, body.size))
                            /\ downloaded' = downloaded \cup {filename}
                            /\ pc' = AfterVariant
                            /\ exitStatus' = exitStatus
                       ELSE /\ log' = Append(log, Line("fail", filename, 0))
                            /\ downloaded' = downloaded
                            /\ pc' = AfterDownloadError
                            /\ exitStatus' = IF AfterDownloadError = "done"
                                               THEN StatusAtDone ELSE exitStatus
    /\ UNCHANGED <<nfonts, run, fi, nvariants, before, baseDir, backend>>

\* line 26: the outer loop takes the next font
NextFont ==
    /\ pc = "next"
    /\ fi < nfonts
    /\ fi' = fi + 1
    /\ pc' = "meta"
    /\ log' = <<>>
    /\ requests' = <<>>
    /\ variant' = NoVariant
    /\ nvariants' = 0
    /\ vi' = 1
    /\ error' = ""
    /\ UNCHANGED <<nfonts, run, files, downloaded, before, exitStatus,
                   baseDir, backend>>

\* line 65: the outer loop is exhausted; print 'Done.' and exit
Finish ==
    /\ pc = "next"
    /\ fi = nfonts
    /\ pc' = "done"
    /\ exitStatus' = StatusAtDone
    /\ UNCHANGED <<nfonts, run, fi, nvariants, vi, variant, files, log,
                   requests, downloaded, before, error, baseDir, backend>>

\* the script is started again on the same directory
StartRun ==
    /\ pc \in {"done", "crashed"}
    /\ run' = run + 1
    /\ pc' = "start"
    /\ error' = ""
    /\ fi' = 1
    /\ nvariants' = 0
    /\ vi' = 1
    /\ variant' = NoVariant
    /\ log' = <<>>
    /\ requests' = <<>>
    /\ before' = downloaded
    /\ downloaded' = {}
    /\ exitStatus' = "running"
    /\ UNCHANGED <<nfonts, files, baseDir, backend>>

----------------------------------------------------------------------------
(* Spec: any remote behaviour, any local write outcome *)

\* whether lines 55-63 are reached for `entry` in the current state
Downloads(entry) ==
    /\ entry # NotObject
    /\ IsSupported(entry.id)
    /\ entry.woff2 # ""
    /\ NeedsFetch(files, Filename(Fonts[fi], Weight(entry.id)))

\* the environment's choices that the iteration consults
OutcomesFor(entry) == IF Downloads(entry) THEN AssetOutcomes ELSE {"ok"}
BodiesFor(entry, outcome) ==
    IF Downloads(entry) /\ outcome \in {"writeerror", "ok"}
      THEN Bodies ELSE {CHOOSE b \in Bodies : b.size = Threshold}
PrefixesFor(outcome, body) ==
    IF outcome = "writeerror" THEN PrefixSizes(body) ELSE {0}

FetchAny ==
    \E outcome \in MetaOutcomes :
        \E n \in IF outcome = "ok" THEN 0..MaxVariants ELSE {0} :
            FetchMetadata(outcome, n)

VariantAny ==
    \E entry \in Entries :
        \E outcome \in OutcomesFor(entry) :
            \E body \in BodiesFor(entry, outcome) :
                \E p \in PrefixesFor(outcome, body) :
                    ProcessVariant(entry, outcome, body, p)

Rerun == (run + 1) * nfonts <= MaxVisits /\ StartRun

Next == MakeDirs \/ FetchAny \/ VariantAny \/ NextFont \/ Finish \/ Rerun

Spec == Init /\ [][Next]_vars

----------------------------------------------------------------------------
(* SpecStable: a stable backend.  Every metadata request returns the same    *)
(* JSON document in every run, every asset URL serves the same body in every *)
(* run, and every request and every local write succeeds.                    *)

\* the documents the metadata service may hold for a font
Responses == UNION {[1..n -> Entries] : n \in 0..MaxVariants}

StableBackends ==
    [meta : UNION {[1..n -> Responses] : n \in 1..NumFonts},
     body : [Urls \ {""} -> Bodies]]

InitStable ==
    /\ backend \in StableBackends
    /\ nfonts = Len(backend.meta)
    /\ run = 1
    /\ pc = "start"
    /\ error = ""
    /\ baseDir = "found"
    /\ fi = 1
    /\ nvariants = 0
    /\ vi = 1
    /\ variant = NoVariant
    /\ files = <<>>
    /\ log = <<>>
    /\ requests = <<>>
    /\ downloaded = {}
    /\ before = {}
    /\ exitStatus = "running"

\* the body the backend serves at the URL of `entry`
ServedAt(entry) ==
    IF entry.woff2 \in DOMAIN backend.body
      THEN backend.body[entry.woff2]
      ELSE CHOOSE b \in Bodies : b.size = Threshold

FetchStable ==
    /\ pc = "meta"
    /\ FetchMetadata("ok", Len(backend.meta[fi]))

VariantStable ==
    /\ pc = "variant"
    /\ LET entry == backend.meta[fi][vi]
       IN ProcessVariant(entry, "ok", ServedAt(entry), 0)

RerunStable == run < MaxRuns /\ StartRun

NextStable == MakeDirs \/ FetchStable \/ VariantStable \/ NextFont \/ Finish \/ RerunStable

SpecStable == InitStable /\ [][NextStable]_vars

TypeOK ==
    /\ nfonts \in 1..NumFonts
    /\ run \in 1..(IF backend = NoBackend THEN MaxVisits ELSE MaxRuns)
    /\ pc \in {"start", "meta", "variant", "next", "done", "crashed"}
    /\ error \in MetaErrors \cup AssetOutcomes \cup {""}
    /\ baseDir \in {"absent", "found", "created"}
    /\ fi \in 1..nfonts
    /\ nvariants \in 0..MaxVariants
    /\ vi \in 1..(MaxVariants + 1)
    /\ variant \in Entries \cup {NoVariant}
    /\ exitStatus \in {"running", "0", "1"}

----------------------------------------------------------------------------
(* Vocabulary of the properties, stated independently of the definitions    *)
(* above                                                                     *)

Last(seq) == seq[Len(seq)]

\* a variant the sync is to act on: a supported id and a non-empty asset URL
Processable(entry) ==
    /\ entry.id \in {"regular", "600", "700"}
    /\ entry.woff2 \in Urls \ {""}

\* the name the file of (font, variant id) is to have
CanonicalName(font, id) ==
    CASE id = "regular" -> font \o "-400.woff2"
      [] id = "600" -> font \o "-600.woff2"
      [] id = "700" -> font \o "-700.woff2"

CanonicalNames ==
    {CanonicalName(Fonts[i], id) : i \in 1..NumFonts, id \in {"regular", "600", "700"}}

\* the cache files of the font being processed
NamesOfCurrentFont == {CanonicalName(Fonts[fi], id) : id \in {"regular", "600", "700"}}

AssetRequests == {i \in DOMAIN requests : requests[i] # "meta"}

LinesOfKind(kinds) == {i \in DOMAIN log : log[i].kind \in kinds}

\* file f exists and is large enough for a later run to skip it
Valid(fs, f) == f \in DOMAIN fs /\ fs[f].size > 1000

\* the step is an iteration of the inner loop on a processable variant
IterationOnProcessable == pc = "variant" /\ Processable(variant')

----------------------------------------------------------------------------
(* C1: idempotence across runs *)

\* every body the stable backend serves is larger than the threshold
AllBodiesLarge == \A u \in DOMAIN backend.body : backend.body[u].size > 1000

\* in a run after the first: no asset request has been issued, nothing has
\* been downloaded, and once the current font is finished every file of it
\* that the first run downloaded has an 'exists' line
SecondRunIsQuiet ==
    run >= 2 =>
        /\ AssetRequests = {}
        /\ downloaded = {}
        /\ pc \in {"next", "done", "crashed"} =>
              \A f \in before \cap NamesOfCurrentFont :
                  \E i \in LinesOfKind({"exists"}) : log[i].file = f

\* C1 as claimed: under a stable backend serving bodies of any size, the
\* second run from an empty cache downloads nothing and reports every item
\* the first run downloaded as already present.
C1_IdempotentAnyBodySize == SecondRunIsQuiet

\* C1 as amended: the same, for stable backends whose asset bodies are all
\* larger than 1000 bytes.
C1_IdempotentLargeBodies == AllBodiesLarge => SecondRunIsQuiet

\* a second run over two fonts has finished; the first run downloaded at
\* least two files, all bodies are large, and the last font's file is
\* reported as present
C1_Witness ==
    /\ AllBodiesLarge
    /\ run = 2
    /\ pc = "done"
    /\ nfonts = 2
    /\ Cardinality(before) >= 2
    /\ LinesOfKind({"exists"}) # {}

----------------------------------------------------------------------------
(* C2: the run always completes *)

\* C2: whatever the metadata and download outcomes are, no error ends the
\* process part-way through the font list: a run never ends in an uncaught
\* exception, and a run that ended has visited the whole list.
C2_RunAlwaysCompletes ==
    /\ pc # "crashed"
    /\ exitStatus # "running" => (pc = "done" /\ fi = nfonts)

----------------------------------------------------------------------------
(* C3: per-font failure isolation *)

\* the step is a metadata fetch that ended in a caught error
MetadataFailureStep ==
    /\ pc = "meta"
    /\ Len(log') > 0
    /\ Last(log').kind = "metafail"

\* the font being left is one whose metadata fetch failed
FontFailed == pc = "next" /\ LinesOfKind({"metafail"}) # {}

\* C3: a failed metadata fetch for a font issues no asset request, writes no
\* file and records one failure for that font; the outer loop then goes on
\* to the next font, which starts from the same per-font state as after any
\* other font (or the run ends normally when the font was the last one).
C3_MetadataFailureIsolated ==
    [][ /\ MetadataFailureStep =>
              /\ files' = files
              /\ requests' = Append(requests, "meta")
              /\ log' = <<[kind |-> "metafail", file |-> Fonts[fi], size |-> 0]>>
              /\ pc' = "next"
              /\ fi' = fi
              /\ exitStatus' = "running"
        /\ FontFailed =>
              /\ files' = files
              /\ AssetRequests = {}
              /\ IF fi < nfonts
                   THEN /\ pc' = "meta"
                        /\ fi' = fi + 1
                        /\ log' = <<>>
                        /\ requests' = <<>>
                        /\ exitStatus' = "running"
                   ELSE pc' = "done"
      ]_vars

\* the first of two fonts has just failed its metadata fetch
C3_Witness ==
    /\ nfonts = 2
    /\ fi = 1
    /\ pc = "next"
    /\ log = <<[kind |-> "metafail", file |-> "montserrat", size |-> 0]>>

----------------------------------------------------------------------------
(* C4: per-variant failure isolation *)

\* the step is an iteration whose download or write failed
DownloadFailureStep ==
    /\ pc = "variant"
    /\ Len(log') = Len(log) + 1
    /\ Last(log').kind = "fail"

\* C4: a failed download or write records one failure, for that item, and
\* changes at most that item's file; the inner loop goes on to the next
\* variant of the same font, and after the font's last variant the outer
\* loop goes on to the next font.
C4_DownloadFailureIsolated ==
    [][ /\ DownloadFailureStep =>
              LET out == CanonicalName(Fonts[fi], variant'.id)
              IN /\ Processable(variant')
                 /\ log' = Append(log, [kind |-> "fail", file |-> out, size |-> 0])
                 /\ \A f \in (DOMAIN files \cup DOMAIN files') \ {out} :
                        /\ f \in DOMAIN files
                        /\ f \in DOMAIN files'
                        /\ files'[f] = files[f]
                 /\ fi' = fi
                 /\ nvariants' = nvariants
                 /\ vi' = vi + 1
                 /\ pc' = IF vi < nvariants THEN "variant" ELSE "next"
                 /\ exitStatus' = "running"
        /\ (pc = "next" /\ LinesOfKind({"fail"}) # {} /\ fi < nfonts) =>
              /\ pc' = "meta"
              /\ fi' = fi + 1
      ]_vars

\* a font with two variants: the first failed, its sibling was downloaded
C4_Witness ==
    /\ Len(log) = 2
    /\ log[1].kind = "fail"
    /\ log[2].kind = "ok"
    /\ log[1].file # log[2].file

----------------------------------------------------------------------------
(* C5: cache validity by threshold *)

\* the step issues an asset request for the variant it processes
Requested == requests' = Append(requests, variant'.woff2)

\* C5 as claimed: when a processable variant is processed, a cache file
\* below 1000 bytes is always re-fetched and one of 1000 bytes or more is
\* never re-fetched.
C5_AtOrAboveThresholdSkipped ==
    [][ IterationOnProcessable =>
            LET out == CanonicalName(Fonts[fi], variant'.id)
            IN /\ (out \in DOMAIN files /\ files[out].size < 1000) => Requested
               /\ (out \in DOMAIN files /\ files[out].size >= 1000) => requests' = requests
      ]_vars

\* C5 as amended: a cache file below 1000 bytes is always re-fetched, one of
\* more than 1000 bytes is never re-fetched, and one of exactly 1000 bytes is
\* re-fetched.
C5_AboveThresholdSkipped ==
    [][ IterationOnProcessable =>
            LET out == CanonicalName(Fonts[fi], variant'.id)
            IN /\ (out \in DOMAIN files /\ files[out].size < 1000) => Requested
               /\ (out \in DOMAIN files /\ files[out].size = 1000) => Requested
               /\ (out \in DOMAIN files /\ files[out].size > 1000) => requests' = requests
      ]_vars

\* in a second run one cached file was skipped and another file, stored by
\* the first run with exactly 1000 bytes, was fetched again
C5_Witness ==
    /\ run = 2
    /\ \E i \in LinesOfKind({"exists"}) : Valid(files, log[i].file)
    /\ \E j \in LinesOfKind({"ok", "fail"}) : log[j].file \in before
    /\ AssetRequests # {}

----------------------------------------------------------------------------
(* C6: partial writes never count as valid *)

\* C6: a cache file that passes the validity check holds the complete body
\* of a successfully fetched asset.
C6_ValidFilesAreComplete ==
    \A f \in DOMAIN files : Valid(files, f) => files[f].body # Incomplete

----------------------------------------------------------------------------
(* C7: exit status reflects failures *)

\* C7: a run that ended after an item failed (here: an item of the last
\* font, whose lines are still in `log`) exits with a non-zero status.
C7_ExitStatusReflectsFailures ==
    (exitStatus # "running" /\ LinesOfKind({"metafail", "fail"}) # {})
        => exitStatus # "0"

----------------------------------------------------------------------------
(* C8: valid cached files are never overwritten *)

\* C8: no step changes, removes or truncates a cache file that exists with
\* more than 1000 bytes; so such a file found at the start of a run is the
\* same at the end of this and of every later run.
C8_ValidFilesNeverOverwritten ==
    [][ \A f \in DOMAIN files :
            Valid(files, f) => (f \in DOMAIN files' /\ files'[f] = files[f])
      ]_vars

\* in a second run a variant whose file the first run stored completely was
\* processed and skipped, and the file still holds that body
C8_Witness ==
    /\ run = 2
    /\ \E i \in LinesOfKind({"exists"}) :
          /\ log[i].file \in before
          /\ Valid(files, log[i].file)
          /\ files[log[i].file].body \in {"x", "y"}

----------------------------------------------------------------------------
(* C9: variant filtering *)

\* C9: an iteration on a variant whose id is not supported or whose URL is
\* empty or absent issues no request, leaves the directory as it is and
\* prints no line.
C9_UnsupportedVariantsDropped ==
    [][ (pc = "variant" /\ ~Processable(variant')) =>
            /\ requests' = requests
            /\ files' = files
            /\ log' = log
            /\ downloaded' = downloaded
      ]_vars

\* an "italic" variant with a URL, then a "700" variant without one, were
\* processed on an empty cache
C9_Witness ==
    /\ vi = 3
    /\ pc = "next"
    /\ variant = [id |-> "700", woff2 |-> ""]
    /\ files = <<>>
    /\ log = <<>>
    /\ requests = <<"meta">>

----------------------------------------------------------------------------
(* C10: weight normalisation *)

\* C10: every file of the directory has a canonical name (a font of the list,
\* weight 400, 600 or 700), and the line printed for the processable variant
\* just processed names the file of its weight; a downloaded file has that
\* name.
C10_WeightNormalised ==
    /\ DOMAIN files \subseteq CanonicalNames
    /\ (Processable(variant) /\ pc # "crashed") =>
          /\ Len(log) > 0
          /\ Last(log).file = CanonicalName(Fonts[fi], variant.id)
          /\ Last(log).kind = "ok" => Last(log).file \in DOMAIN files

\* the "regular" variant was just downloaded into montserrat-400.woff2, next
\* to the 600 and 700 files
C10_Witness ==
    /\ variant.id = "regular"
    /\ Len(log) > 0
    /\ Last(log) = [kind |-> "ok", file |-> "montserrat-400.woff2", size |-> 5000]
    /\ DOMAIN files = {"montserrat-400.woff2", "montserrat-600.woff2",
                       "montserrat-700.woff2"}

----------------------------------------------------------------------------
(* C11: end-to-end result on an empty cache *)

\* the processable variants the stable backend returns for font i
ReturnedFor(i) ==
    {backend.meta[i][k] : k \in {j \in DOMAIN backend.meta[i] :
                                     Processable(backend.meta[i][j])}}

\* the files font i is to have after a run on an empty cache
ExpectedNames(i) == {CanonicalName(Fonts[i], e.id) : e \in ReturnedFor(i)}

\* file f of font i holds the whole body served at the URL of a returned
\* variant of that weight
HoldsServedBody(i, f) ==
    \E e \in ReturnedFor(i) :
        /\ f = CanonicalName(Fonts[i], e.id)
        /\ files[f] = [size |-> backend.body[e.woff2].size,
                       body |-> backend.body[e.woff2].id]

\* C11: after the first run on an empty cache with every request succeeding,
\* the directory holds exactly one file per returned processable variant,
\* named {font}-{weight}.woff2 and holding the body served at the variant's
\* URL, and no other file.
C11_EndToEndOnEmptyCache ==
    (run = 1 /\ pc \in {"done", "crashed"}) =>
        /\ DOMAIN files = UNION {ExpectedNames(i) : i \in 1..nfonts}
        /\ \A i \in 1..nfonts : \A f \in ExpectedNames(i) : HoldsServedBody(i, f)

----------------------------------------------------------------------------
(* C12: report completeness *)

\* C12: each (font, weight) pair attempted gets exactly one outcome line in a
\* run, none gets two, also when the metadata response lists the same variant
\* id more than once.
C12_OneLinePerPair ==
    \A i, j \in DOMAIN log : i # j => log[i].file # log[j].file

----------------------------------------------------------------------------
(* C13: the skip decision is exact *)

\* C13: when a processable variant is processed, its download is skipped
\* exactly when its cache file exists with more than 1000 bytes; an absent
\* file, and a file of 1000 bytes or less, gets an asset request.
C13_SkipDecisionExact ==
    [][ IterationOnProcessable =>
            LET out == CanonicalName(Fonts[fi], variant'.id)
            IN /\ requests' = requests <=>
                      (out \in DOMAIN files /\ files[out].size > 1000)
               /\ out \notin DOMAIN files => Requested
               /\ (out \in DOMAIN files /\ files[out].size <= 1000) => Requested
      ]_vars

\* one font listed the same id twice: the file was absent and was fetched,
\* stored with exactly 1000 bytes, and so was requested again
C13_Witness ==
    /\ Len(log) = 2
    /\ log[1].kind = "ok" /\ log[1].size = 1000
    /\ log[2].file = log[1].file
    /\ log[2].kind \in {"ok", "fail"}
    /\ Cardinality(AssetRequests) = 2

----------------------------------------------------------------------------
(* C14: no retry *)

\* the metadata requests issued so far for the font being processed
MetadataRequests == {i \in DOMAIN requests : requests[i] = "meta"}

\* C14: within a run every font of the list gets exactly one metadata
\* request, so a run that has ended has issued one for its last font; at most
\* one asset request is issued per processed variant, and a request is never
\* issued again.
C14_NoRetry ==
    /\ Cardinality(MetadataRequests) = IF pc \in {"start", "meta"} THEN 0 ELSE 1
    /\ Cardinality(AssetRequests) = Cardinality(LinesOfKind({"ok", "fail"}))
    /\ Cardinality(AssetRequests) <= vi
    /\ pc \in {"done", "crashed"} => fi = nfonts

----------------------------------------------------------------------------
(* C15: strictly sequential ordering *)

\* the files the step creates, changes or removes
Touched ==
    {f \in DOMAIN files \cup DOMAIN files' :
        \/ f \notin DOMAIN files
        \/ f \notin DOMAIN files'
        \/ files'[f] # files[f]}

\* the step issues the metadata request of the current font
MetadataRequestStep == requests' = Append(requests, "meta")

\* the step issues an asset request
AssetRequestStep ==
    /\ Len(requests') = Len(requests) + 1
    /\ Last(requests') # "meta"

\* C15: fonts are taken in list order, one at a time; the metadata request
\* of a font is the first thing done for it; an asset request or a file write
\* happens only after the current font's metadata response was received
\* without error, touches only that font's files, and so comes before the
\* next font's metadata request; a step issues at most one request and
\* writes at most one file.
C15_StrictlySequential ==
    [][ /\ \/ fi' = fi
           \/ fi' = fi + 1 /\ run' = run /\ pc = "next"
           \/ fi' = 1 /\ run' = run + 1
        /\ MetadataRequestStep =>
               /\ requests = <<>>
               /\ log = <<>>
               /\ Touched = {}
               /\ fi' = fi
        /\ (AssetRequestStep \/ Touched # {}) =>
               /\ requests # <<>>
               /\ requests[1] = "meta"
               /\ LinesOfKind({"metafail"}) = {}
               /\ fi' = fi
               /\ run' = run
               /\ Touched \subseteq NamesOfCurrentFont
               /\ Cardinality(Touched) <= 1
        /\ requests' # requests =>
               \/ Len(requests') = Len(requests) + 1
               \/ requests' = <<>>
      ]_vars

\* the second font of the list has been processed after the first: files of
\* both are in the directory, and the second font's asset requests follow its
\* metadata request
C15_Witness ==
    /\ fi = 2
    /\ pc = "next"
    /\ requests[1] = "meta"
    /\ AssetRequests # {}
    /\ \E f \in DOMAIN files : f \in NamesOfCurrentFont
    /\ \E f \in DOMAIN files : f \notin NamesOfCurrentFont

----------------------------------------------------------------------------
(* C16: single writer per path *)

\* the (font, supported variant id) pairs of the input
Pairs == (1..NumFonts) \X {"regular", "600", "700"}

\* C16: distinct (font, weight) pairs have distinct cache paths, and within a
\* run no cache path is the target of two downloads, whatever the metadata
\* response lists.
C16_SingleWriterPerPath ==
    /\ \A a, b \in Pairs :
           Filename(Fonts[a[1]], Weight(a[2])) = Filename(Fonts[b[1]], Weight(b[2]))
               => a = b
    /\ \A i, j \in LinesOfKind({"ok", "fail"}) : i # j => log[i].file # log[j].file

----------------------------------------------------------------------------
(* C17: a failed asset request leaves the cache untouched *)

\* C17: when the asset request of the processed variant fails before a
\* response is obtained (connection error, timeout, non-2xx status), no
\* cache file is created, truncated or modified.
C17_FailedRequestLeavesCache ==
    [][ (pc = "variant" /\ error' = "neterror") =>
            /\ AssetRequestStep
            /\ files' = files
      ]_vars

\* in a second run the request for a file the first run stored with exactly
\* 1000 bytes failed, and the file still holds the whole first body
C17_Witness ==
    /\ run = 2
    /\ error = "neterror"
    /\ Len(log) = 1
    /\ log[1].kind = "fail"
    /\ log[1].file \in before
    /\ log[1].file \in DOMAIN files
    /\ files[log[1].file] = [size |-> 1000, body |-> "s"]

----------------------------------------------------------------------------
(* C18: write footprint *)

\* C18 as claimed: a step creates or modifies nothing but files named
\* {font}-{weight}.woff2 in the output directory, with font from the list and
\* weight in {400, 600, 700}; every other path, the output directory itself
\* included, is left as it was.
C18_OnlyCacheFilesWritten ==
    [][ /\ Touched \subseteq CanonicalNames
        /\ baseDir' = baseDir
      ]_vars

\* C18 as amended: a step creates or modifies nothing but the output
\* directory itself, created once at the start when it is absent, and files
\* in it named {font}-{weight}.woff2 with font from the list and weight in
\* {400, 600, 700}.
C18_OnlyDirectoryAndCacheFilesWritten ==
    [][ /\ Touched \subseteq CanonicalNames
        /\ baseDir' # baseDir =>
               /\ pc = "start"
               /\ baseDir = "absent"
               /\ baseDir' = "created"
               /\ Touched = {}
      ]_vars

\* a run that found no output directory has created it and has ended with
\* cache files written into it
C18_Witness ==
    /\ baseDir = "created"
    /\ pc = "done"
    /\ run = 1
    /\ DOMAIN files # {}
    /\ DOMAIN files \subseteq CanonicalNames

====
